---------------------------- MODULE Spec2Model ----------------------------
(***************************************************************************)
(* A model of src/index.js: an interactive chat client with a streaming    *)
(* ("Normal") mode and a buffered ("Markdown") mode.                       *)
(*                                                                         *)
(* Text is modelled as a sequence of characters.  User input is a sequence *)
(* of single characters.  A streaming response body is a sequence of       *)
(* fragments, each standing for a run of characters of the wire text:      *)
(*     "data:"   the five characters  d a t a :                            *)
(*     " "       one space                                                 *)
(*     "\n"      one line feed                                             *)
(*     "{"       the text   {"choices":[{"delta":{"content":"              *)
(*     "}"       the text   "}}]}                                          *)
(*     "a", "b"  one character of content                                  *)
(*     "[DONE"   the five characters  [ D O N E                            *)
(*     "]"       the character  ]                                          *)
(*     ":"       a colon (an event-stream comment line starts with it)     *)
(* A chunk boundary can fall between any two fragments.                    *)
(*                                                                         *)
(* Every action is the code that runs between two suspension points of the *)
(* event loop (an await, or the wait for a line of input).                 *)
(***************************************************************************)
EXTENDS Integers, Sequences, FiniteSets, TLC

(* ------------------------------ bounds --------------------------------- *)

\* the longest streaming response body the server sends, in lines
MaxLines == 2

\* the conversation store is not grown beyond this many messages
MaxMessages == 3

(* ------------------------- text primitives ----------------------------- *)

NL == "\n"
SP == " "

\* String.prototype.startsWith
StartsWith(s, p) ==
    /\ Len(s) >= Len(p)
    /\ SubSeq(s, 1, Len(p)) = p

\* String.prototype.slice(n): the text from 0-based index n on
Slice(s, n) == SubSeq(s, n + 1, Len(s))

RECURSIVE TrimStart(_)
TrimStart(s) ==
    IF s # <<>> /\ Head(s) \in {SP, NL} THEN TrimStart(Tail(s)) ELSE s

RECURSIVE TrimEnd(_)
TrimEnd(s) ==
    IF s # <<>> /\ s[Len(s)] \in {SP, NL}
    THEN TrimEnd(SubSeq(s, 1, Len(s) - 1))
    ELSE s

\* String.prototype.trim
Trim(s) == TrimEnd(TrimStart(s))

\* String.prototype.split('\n'): the pieces between line feeds, in order;
\* a text without a line feed is one piece, and a text that ends with a
\* line feed has an empty last piece
RECURSIVE SplitFrom(_, _)
SplitFrom(s, cur) ==
    IF s = <<>> THEN <<cur>>
    ELSE IF Head(s) = NL THEN <<cur>> \o SplitFrom(Tail(s), <<>>)
    ELSE SplitFrom(Tail(s), Append(cur, Head(s)))

Split(s) == SplitFrom(s, <<>>)

RECURSIVE Concat(_)
Concat(ss) == IF ss = <<>> THEN <<>> ELSE Head(ss) \o Concat(Tail(ss))

(* --------------------------- the wire text ----------------------------- *)

DataPrefix == <<"data:", SP>>
DoneText == <<"[DONE", "]">>
ContentChars == {"a", "b"}

\* JSON.parse followed by parsed.choices?.[0]?.delta?.content || '':
\* the content of the record, or the empty text when the text is no record
\* (JSON.parse throws, or yields a value without the field; both are caught
\* or defaulted, and both leave the token empty).  JSON.parse accepts white
\* space around the value.
ParseToken(jsonStr) ==
    LET t == Trim(jsonStr) IN
    IF /\ Len(t) >= 2
       /\ t[1] = "{"
       /\ t[Len(t)] = "}"
       /\ \A i \in 2..(Len(t) - 1) : t[i] \in ContentChars
    THEN SubSeq(t, 2, Len(t) - 1)
    ELSE <<>>

\* the loop without the filter of line 151: every line is parsed
IsDataLine_NoFilter(line) == TRUE

\* line 151: the lines of a chunk the loop looks at
IsDataLine(line) == StartsWith(Trim(line), DataPrefix)

RECURSIVE FilterDataLines(_)
FilterDataLines(ls) ==
    IF ls = <<>> THEN <<>>
    ELSE IF IsDataLine(Head(ls))
         THEN <<Head(ls)>> \o FilterDataLines(Tail(ls))
         ELSE FilterDataLines(Tail(ls))

\* line 153: line.replace(/^data: /, ''), anchored at the untrimmed line
StripPrefix(line) ==
    IF StartsWith(line, DataPrefix) THEN Slice(line, Len(DataPrefix)) ELSE line

\* lines 152-167: the loop over the data lines of one chunk.  The result is
\* the tokens written, in order, and whether the loop met the sentinel.
RECURSIVE LineLoop(_)
LineLoop(ls) ==
    IF ls = <<>> THEN [tokens |-> <<>>, sawDone |-> FALSE]
    ELSE LET jsonStr == StripPrefix(Head(ls)) IN
         IF jsonStr = DoneText
         THEN [tokens |-> <<>>, sawDone |-> TRUE]
         ELSE LET token == ParseToken(jsonStr)
                  more == LineLoop(Tail(ls))
              IN  IF token # <<>>
                  THEN [tokens |-> <<token>> \o more.tokens, sawDone |-> more.sawDone]
                  ELSE more

\* lines 150-167: what one chunk makes the read loop do
DecodeChunk(chunk) == LineLoop(FilterDataLines(Split(chunk)))

(* ------------------------ what the server sends ------------------------ *)

TokenLine(c) == DataPrefix \o <<"{", c, "}">>

\* the lines of the streaming response bodies the server sends in Spec: two
\* token records and the sentinel.  The text after the last line feed of a
\* chunk is an empty line, and a chunk boundary inside a line leaves lines of
\* other shapes, so those occur as well.
BodyLines == { TokenLine("a"), TokenLine("b"), DataPrefix \o DoneText }

\* the lines of the bodies the read loop is run on in DecoderSpec: those of
\* BodyLines, a record with empty content, a token record after a leading
\* space, a blank line, a comment line, and a record without the data prefix
DecoderLines ==
    BodyLines \cup
    { DataPrefix \o <<"{", "}">>, <<SP>> \o TokenLine("a"), <<>>,
      <<":", "a">>, <<"{", "a", "}">> }

\* every body of n lines of the set ls, each line ended by a line feed
RECURSIVE BodiesOfLines(_, _)
BodiesOfLines(ls, n) ==
    IF n = 0 THEN { <<>> }
    ELSE { l \o <<NL>> \o b : l \in ls, b \in BodiesOfLines(ls, n - 1) }

Bodies == UNION { BodiesOfLines(BodyLines, n) : n \in 0..MaxLines }

DecoderBodies == UNION { BodiesOfLines(DecoderLines, n) : n \in 0..MaxLines }

\* what response.json() resolves to in a buffered turn: a body with
\* choices[0].message.content, a body without choices[0], and a body whose
\* first choice has a message without content
JsonBodies ==
    { [kind |-> "content", content |-> <<"a">>],
      [kind |-> "content", content |-> <<"b">>],
      [kind |-> "nochoices", content |-> <<>>],
      [kind |-> "nocontent", content |-> <<>>] }

(* --------------------------- what the user types ----------------------- *)

Inputs ==
    { <<>>,
      <<"/", "q", "u", "i", "t">>,
      <<SP, "/", "q", "u", "i", "t", SP>>,
      <<"/", "n", "s">>,
      <<"/", "n", "s", SP>>,
      <<"/", "n", "s", SP, "a">>,
      <<"/", "n", "s", SP, SP, "b", SP>>,
      <<"/", "n", "s", "m">>,
      <<SP, "/", "n", "s", "m">>,
      <<"/", "n", "s", "m", SP>>,
      <<"/", "n", "s", "m", SP, "b">>,
      <<"a">>,
      <<"b">> }

InitialPrompts == { <<>>, <<"a">> }

(* ------------------------------- state --------------------------------- *)

VARIABLES
    pc,               \* where the program is suspended
    exitCode,         \* << the code given to process.exit >>, <<>> while running
    isMarkdownMode,   \* line 76
    messages,         \* line 87
    spinnerInterval,  \* line 92: TRUE when it holds a timer handle
    timers,           \* the number of interval timers that are set
    spinFrame,        \* i % spinnerChars.length of the newest timer (line 95)
    input,            \* the line handed to the rl.question callback
    userPrompt,       \* the parameter of the chat function that is running
    request,          \* the body of the request that awaits its response
    inflight,         \* the number of pending network promises
    body,             \* the whole streaming response body
    rest,             \* the part of it the reader has not delivered yet
    fullMessage,      \* line 142
    out,              \* the tokens written since the label of line 141
    doneSeen,         \* whether the line loop has met the sentinel (line 154)
    lastErr           \* the error reported while handling the current input

vars ==
    << pc, exitCode, isMarkdownMode, messages,
       spinnerInterval, timers, spinFrame, input, userPrompt, request,
       inflight, body, rest, fullMessage, out, doneSeen, lastErr >>

NoRequest == [stream |-> FALSE, messages |-> <<>>]

User(text) == [role |-> "user", content |-> text]
Assistant(text) == [role |-> "assistant", content |-> text]

Init ==
    /\ pc = "start"
    /\ exitCode = <<>>
    /\ isMarkdownMode \in BOOLEAN
    /\ messages = <<>>
    /\ spinnerInterval = FALSE
    /\ timers = 0
    /\ spinFrame = 0
    /\ input = <<>>
    /\ userPrompt = <<>>
    /\ request = NoRequest
    /\ inflight = 0
    /\ body = <<>>
    /\ rest = <<>>
    /\ fullMessage = <<>>
    /\ out = <<>>
    /\ doneSeen = FALSE
    /\ lastErr = "none"

spinVars == << spinnerInterval, timers, spinFrame >>
streamVars == << body, rest, fullMessage, out, doneSeen >>

(* ------------------------------ helpers -------------------------------- *)

SpinnerChars == 4

\* lines 93-100
StartSpinner ==
    [spinnerInterval |-> TRUE, timers |-> timers + 1, spinFrame |-> 0]

\* lines 101-108
StopSpinner ==
    IF spinnerInterval
    THEN [spinnerInterval |-> FALSE, timers |-> timers - 1, spinFrame |-> 0]
    ELSE [spinnerInterval |-> spinnerInterval, timers |-> timers,
          spinFrame |-> spinFrame]

SetSpinner(s) ==
    /\ spinnerInterval' = s.spinnerInterval
    /\ timers' = s.timers
    /\ spinFrame' = s.spinFrame

\* a reset that forgets to clear the store (line 115)
ResetConversation_KeepsStore(markdownMode) ==
    [messages |-> messages, isMarkdownMode |-> markdownMode]

\* a reset that flips the mode instead of setting it (line 116)
ResetConversation_FlipsMode(markdownMode) ==
    [messages |-> <<>>, isMarkdownMode |-> ~isMarkdownMode]

\* a reset that ignores its argument and takes the default of line 114
ResetConversation_DefaultMode(markdownMode) ==
    [messages |-> <<>>, isMarkdownMode |-> FALSE]

\* lines 114-118
ResetConversation(markdownMode) ==
    [messages |-> <<>>, isMarkdownMode |-> markdownMode]

QuitCmd == <<"/", "q", "u", "i", "t">>
NsCmd == <<"/", "n", "s">>
NsmCmd == <<"/", "n", "s", "m">>

\* the classification with the test of line 236 written startsWith('/ns')
Classify_NsWithoutSpace(inp) ==
    IF inp = <<>> THEN "empty"
    ELSE IF Trim(inp) = QuitCmd THEN "quit"
    ELSE IF StartsWith(inp, NsCmd) THEN "ns_msg"
    ELSE IF Trim(inp) = NsCmd THEN "ns"
    ELSE IF StartsWith(inp, NsmCmd \o <<SP>>) THEN "nsm_msg"
    ELSE IF Trim(inp) = NsmCmd THEN "nsm"
    ELSE "chat"

\* the classification with the test of line 230 written input === '/quit'
Classify_QuitUntrimmed(inp) ==
    IF inp = <<>> THEN "empty"
    ELSE IF inp = QuitCmd THEN "quit"
    ELSE IF StartsWith(inp, NsCmd \o <<SP>>) THEN "ns_msg"
    ELSE IF Trim(inp) = NsCmd THEN "ns"
    ELSE IF StartsWith(inp, NsmCmd \o <<SP>>) THEN "nsm_msg"
    ELSE IF Trim(inp) = NsmCmd THEN "nsm"
    ELSE "chat"

\* lines 224-267: the branch of the callback an input line takes
Classify(inp) ==
    IF inp = <<>> THEN "empty"
    ELSE IF Trim(inp) = QuitCmd THEN "quit"
    ELSE IF StartsWith(inp, NsCmd \o <<SP>>) THEN "ns_msg"
    ELSE IF Trim(inp) = NsCmd THEN "ns"
    ELSE IF StartsWith(inp, NsmCmd \o <<SP>>) THEN "nsm_msg"
    ELSE IF Trim(inp) = NsmCmd THEN "nsm"
    ELSE "chat"

\* lines 226, 232 and 65: process.exit
Exit(code) ==
    /\ pc' = "exited"
    /\ exitCode' = <<code>>
    /\ UNCHANGED << messages, isMarkdownMode, spinVars, userPrompt, request,
                    inflight, streamVars >>

\* lines 281 and 312: promptLoop asks the next question
PromptLoop == pc' = "idle"

\* the end of a chat function: its locals go out of scope
LeaveChat ==
    /\ userPrompt' = <<>>
    /\ request' = NoRequest
    /\ body' = <<>>
    /\ rest' = <<>>
    /\ fullMessage' = <<>>
    /\ out' = <<>>
    /\ doneSeen' = FALSE

\* a chat function called without try/catch: the rejection is unhandled and
\* ends the process
Caught_Unhandled(err) ==
    /\ lastErr' = err
    /\ LeaveChat
    /\ pc' = "exited"

\* lines 243-245, 259-261, 275-277, 308-310: the catch around a chat
\* function, then the call of promptLoop that follows it
Caught(err) ==
    /\ lastErr' = err
    /\ LeaveChat
    /\ PromptLoop

\* chatWithGPTStream called without await: the caller goes on to promptLoop
\* while the request is pending
StreamStart_NotAwaited(msgs, prompt) ==
    /\ messages' = Append(msgs, User(prompt))
    /\ userPrompt' = prompt
    /\ request' = [stream |-> TRUE, messages |-> messages']
    /\ inflight' = inflight + 1
    /\ pc' = "idle"
    /\ UNCHANGED << spinVars, streamVars >>

\* a streaming request that sends the new user message only
StreamStart_SendsLastOnly(msgs, prompt) ==
    /\ messages' = Append(msgs, User(prompt))
    /\ userPrompt' = prompt
    /\ request' = [stream |-> TRUE, messages |-> << User(prompt) >>]
    /\ inflight' = inflight + 1
    /\ pc' = "sfetch"
    /\ UNCHANGED << spinVars, streamVars >>

\* lines 123-134: chatWithGPTStream up to the await of fetch, on the store
\* msgs
StreamStart(msgs, prompt) ==
    /\ messages' = Append(msgs, User(prompt))
    /\ userPrompt' = prompt
    /\ request' = [stream |-> TRUE, messages |-> messages']
    /\ inflight' = inflight + 1
    /\ pc' = "sfetch"
    /\ UNCHANGED << spinVars, streamVars >>

\* a buffered turn that does not store the user message
MarkdownStart_NoUserMessage(msgs, prompt) ==
    /\ messages' = msgs
    /\ userPrompt' = prompt
    /\ SetSpinner(StartSpinner)
    /\ request' = [stream |-> FALSE, messages |-> messages']
    /\ inflight' = inflight + 1
    /\ pc' = "mfetch"
    /\ UNCHANGED streamVars

\* lines 179-194: chatWithGPTMarkdown up to the await of fetch, on the store
\* msgs
MarkdownStart(msgs, prompt) ==
    /\ messages' = Append(msgs, User(prompt))
    /\ userPrompt' = prompt
    /\ SetSpinner(StartSpinner)
    /\ request' = [stream |-> FALSE, messages |-> messages']
    /\ inflight' = inflight + 1
    /\ pc' = "mfetch"
    /\ UNCHANGED streamVars

\* a chat turn that always streams, whatever the mode
ChatStart_AlwaysStream(md, msgs, prompt) ==
    StreamStart(msgs, prompt)

\* a chat turn in the mode md
ChatStart(md, msgs, prompt) ==
    IF md THEN MarkdownStart(msgs, prompt) ELSE StreamStart(msgs, prompt)

\* a command that ends without a chat turn
NoChat(msgs) ==
    /\ messages' = msgs
    /\ PromptLoop
    /\ UNCHANGED << spinVars, userPrompt, request, inflight, streamVars >>

(* ------------------------------ startup -------------------------------- *)

\* lines 62-66: no credential is configured
NoApiKey ==
    /\ pc = "start"
    /\ Exit(1)
    /\ UNCHANGED << input, lastErr >>

\* a main that goes to the prompt without running the initial prompt
MainWith_SkipsPrompt(initialPrompt) ==
    /\ pc = "start"
    /\ NoChat(messages)
    /\ UNCHANGED << exitCode, isMarkdownMode, input, lastErr >>

\* lines 300-313, up to the first await, with the credential configured and
\* initialPrompt the program argument (<<>> when there is none)
MainWith(initialPrompt) ==
    /\ pc = "start"
    /\ IF initialPrompt # <<>>
       THEN ChatStart(isMarkdownMode, messages, initialPrompt)
       ELSE NoChat(messages)
    /\ UNCHANGED << exitCode, isMarkdownMode, input, lastErr >>

Main == \E initialPrompt \in InitialPrompts : MainWith(initialPrompt)

(* ----------------------------- promptLoop ------------------------------ *)

\* lines 222-282: the callback of rl.question, up to its first await
HandleInput(inp) ==
    LET kind == Classify(inp) IN
    /\ input' = inp
    /\ lastErr' = "none"
    /\ CASE kind \in {"empty", "quit"} ->
              Exit(0)
         [] kind = "ns_msg" ->
              LET newSessionMsg == Trim(Slice(inp, 3))
                  r == ResetConversation(FALSE)
              IN  /\ isMarkdownMode' = r.isMarkdownMode
                  /\ exitCode' = exitCode
                  /\ IF newSessionMsg # <<>>
                     THEN StreamStart(r.messages, newSessionMsg)
                     ELSE NoChat(r.messages)
         [] kind = "ns" ->
              LET r == ResetConversation(FALSE)
              IN  /\ isMarkdownMode' = r.isMarkdownMode
                  /\ exitCode' = exitCode
                  /\ NoChat(r.messages)
         [] kind = "nsm_msg" ->
              LET newSessionMsg == Trim(Slice(inp, 4))
                  r == ResetConversation(TRUE)
              IN  /\ isMarkdownMode' = r.isMarkdownMode
                  /\ exitCode' = exitCode
                  /\ IF newSessionMsg # <<>>
                     THEN MarkdownStart(r.messages, newSessionMsg)
                     ELSE NoChat(r.messages)
         [] kind = "nsm" ->
              LET r == ResetConversation(TRUE)
              IN  /\ isMarkdownMode' = r.isMarkdownMode
                  /\ exitCode' = exitCode
                  /\ NoChat(r.messages)
         [] OTHER ->
              /\ Len(messages) + 2 <= MaxMessages
              /\ UNCHANGED << isMarkdownMode, exitCode >>
              /\ ChatStart(isMarkdownMode, messages, inp)

Question ==
    /\ pc = "idle"
    /\ \E inp \in Inputs : HandleInput(inp)

frame == << exitCode, isMarkdownMode, input >>

(* ------------------------- chatWithGPTStream --------------------------- *)

\* line 126: fetch rejects; the error reaches the caller's catch
StreamFetchFail ==
    /\ pc = "sfetch"
    /\ inflight' = inflight - 1
    /\ Caught("network")
    /\ UNCHANGED << frame, messages, spinVars >>

\* lines 136-137: a response that is not ok; its text is awaited
StreamHttpError ==
    /\ pc = "sfetch"
    /\ pc' = "stext"
    /\ request' = NoRequest
    /\ UNCHANGED << frame, messages, spinVars, userPrompt, inflight,
                    streamVars, lastErr >>

\* a failed turn that takes its user message back out of the store
StreamErrorText_RollsBack ==
    /\ pc = "stext"
    /\ inflight' = inflight - 1
    /\ messages' = SubSeq(messages, 1, Len(messages) - 1)
    /\ \E read \in BOOLEAN : Caught(IF read THEN "http" ELSE "network")
    /\ UNCHANGED << frame, spinVars >>

\* lines 137-138: the text arrives (or its read fails) and the function throws
StreamErrorText ==
    /\ pc = "stext"
    /\ inflight' = inflight - 1
    /\ \E read \in BOOLEAN : Caught(IF read THEN "http" ELSE "network")
    /\ UNCHANGED << frame, messages, spinVars >>

\* lines 136-147: an ok response; the label is written and the first read
\* of the body is awaited
StreamResponse ==
    /\ pc = "sfetch"
    /\ \E b \in Bodies :
          /\ body' = b
          /\ rest' = b
    /\ fullMessage' = <<>>
    /\ out' = <<>>
    /\ doneSeen' = FALSE
    /\ request' = NoRequest
    /\ pc' = "read"
    /\ UNCHANGED << frame, messages, spinVars, userPrompt, inflight, lastErr >>

\* a read loop that puts each token in front of the accumulated text
ReadChunk_Prepends ==
    /\ pc = "read"
    /\ rest # <<>>
    /\ \E n \in 1..Len(rest) :
          LET chunk == SubSeq(rest, 1, n)
              d == DecodeChunk(chunk)
          IN  /\ rest' = Slice(rest, n)
              /\ out' = out \o d.tokens
              /\ fullMessage' = Concat(d.tokens) \o fullMessage
              /\ doneSeen' = (doneSeen \/ d.sawDone)
    /\ UNCHANGED << frame, messages, spinVars, userPrompt, request, inflight,
                    body, pc, lastErr >>

\* lines 147-168: the reader delivers the next chunk, the loop decodes it and
\* awaits the next read
ReadChunk ==
    /\ pc = "read"
    /\ rest # <<>>
    /\ \E n \in 1..Len(rest) :
          LET chunk == SubSeq(rest, 1, n)
              d == DecodeChunk(chunk)
          IN  /\ rest' = Slice(rest, n)
              /\ out' = out \o d.tokens
              /\ fullMessage' = fullMessage \o Concat(d.tokens)
              /\ doneSeen' = (doneSeen \/ d.sawDone)
    /\ UNCHANGED << frame, messages, spinVars, userPrompt, request, inflight,
                    body, pc, lastErr >>

\* lines 147-148 and 170-173: the reader reports the end of the body; the
\* assistant message is stored and the function returns to its caller
ReadDone ==
    /\ pc = "read"
    /\ rest = <<>>
    /\ messages' = Append(messages, Assistant(fullMessage))
    /\ inflight' = inflight - 1
    /\ LeaveChat
    /\ PromptLoop
    /\ UNCHANGED << frame, spinVars, lastErr >>

\* line 147: reader.read() rejects
ReadError ==
    /\ pc = "read"
    /\ inflight' = inflight - 1
    /\ Caught("read")
    /\ UNCHANGED << frame, messages, spinVars >>

(* ------------------------ chatWithGPTMarkdown -------------------------- *)

\* a buffered turn that takes its user message back out of the store when
\* fetch rejects
MarkdownFetchFail_RollsBack ==
    /\ pc = "mfetch"
    /\ inflight' = inflight - 1
    /\ SetSpinner(StopSpinner)
    /\ Caught("network")
    /\ messages' = SubSeq(messages, 1, Len(messages) - 1)
    /\ UNCHANGED frame

\* lines 186 and 202-205: fetch rejects; the finally block stops the spinner
MarkdownFetchFail ==
    /\ pc = "mfetch"
    /\ inflight' = inflight - 1
    /\ SetSpinner(StopSpinner)
    /\ Caught("network")
    /\ UNCHANGED << frame, messages >>

\* lines 196-197
MarkdownHttpError ==
    /\ pc = "mfetch"
    /\ pc' = "mtext"
    /\ request' = NoRequest
    /\ UNCHANGED << frame, messages, spinVars, userPrompt, inflight,
                    streamVars, lastErr >>

\* lines 197-198 and 202-205
MarkdownErrorText ==
    /\ pc = "mtext"
    /\ inflight' = inflight - 1
    /\ SetSpinner(StopSpinner)
    /\ \E read \in BOOLEAN : Caught(IF read THEN "http" ELSE "network")
    /\ UNCHANGED << frame, messages >>

\* lines 196-201: an ok response; its JSON body is awaited
MarkdownResponse ==
    /\ pc = "mfetch"
    /\ pc' = "mjson"
    /\ request' = NoRequest
    /\ UNCHANGED << frame, messages, spinVars, userPrompt, inflight,
                    streamVars, lastErr >>

\* stopSpinner called after the try block instead of in a finally block
MarkdownJsonFail_NoFinally ==
    /\ pc = "mjson"
    /\ inflight' = inflight - 1
    /\ Caught("json")
    /\ UNCHANGED << frame, messages, spinVars >>

\* lines 201-205: response.json() rejects (the body is not JSON)
MarkdownJsonFail ==
    /\ pc = "mjson"
    /\ inflight' = inflight - 1
    /\ SetSpinner(StopSpinner)
    /\ Caught("json")
    /\ UNCHANGED << frame, messages >>

\* line 207 written with optional chaining and a default of '': a body
\* without the content yields an empty assistant message
MarkdownJson_DefaultsContent ==
    /\ pc = "mjson"
    /\ inflight' = inflight - 1
    /\ SetSpinner(StopSpinner)
    /\ \E data \in JsonBodies, rendered \in BOOLEAN :
          IF ~rendered
          THEN Caught("render") /\ UNCHANGED messages
          ELSE /\ messages' = Append(messages, Assistant(data.content))
               /\ LeaveChat
               /\ PromptLoop
               /\ UNCHANGED lastErr
    /\ UNCHANGED frame

\* lines 201-216: the parsed body arrives.  Line 207 throws a TypeError when
\* choices[0] is missing, marked throws at line 210 when the content is not
\* a string, and the renderer may throw on a string as well.
MarkdownJson ==
    /\ pc = "mjson"
    /\ inflight' = inflight - 1
    /\ SetSpinner(StopSpinner)
    /\ \E data \in JsonBodies, rendered \in BOOLEAN :
          IF data.kind = "nochoices"
          THEN Caught("shape") /\ UNCHANGED messages
          ELSE IF data.kind = "nocontent" \/ ~rendered
          THEN Caught("render") /\ UNCHANGED messages
          ELSE /\ messages' = Append(messages, Assistant(data.content))
               /\ LeaveChat
               /\ PromptLoop
               /\ UNCHANGED lastErr
    /\ UNCHANGED frame

\* lines 97-99: the interval callback runs while the program is suspended
SpinnerTick ==
    /\ pc \notin {"start", "exited"}
    /\ timers > 0
    /\ spinFrame' = (spinFrame + 1) % SpinnerChars
    /\ UNCHANGED << frame, pc, messages, spinnerInterval, timers, userPrompt,
                    request, inflight, streamVars, lastErr >>

(* --------------------------- specification ----------------------------- *)

Next ==
    \/ NoApiKey
    \/ Main
    \/ Question
    \/ StreamFetchFail
    \/ StreamHttpError
    \/ StreamErrorText
    \/ StreamResponse
    \/ ReadChunk
    \/ ReadDone
    \/ ReadError
    \/ MarkdownFetchFail
    \/ MarkdownHttpError
    \/ MarkdownErrorText
    \/ MarkdownResponse
    \/ MarkdownJsonFail
    \/ MarkdownJson
    \/ SpinnerTick

Spec == Init /\ [][Next]_vars

(* ------------------- the read loop on its own -------------------------- *)

\* The state in which chatWithGPTStream awaits its first read (line 147) in
\* the turn of the initial prompt "a" of a program started in Normal mode,
\* for every body of DecoderBodies.
DecoderInit ==
    /\ pc = "read"
    /\ exitCode = <<>>
    /\ isMarkdownMode = FALSE
    /\ messages = << User(<<"a">>) >>
    /\ spinnerInterval = FALSE
    /\ timers = 0
    /\ spinFrame = 0
    /\ input = <<>>
    /\ userPrompt = <<"a">>
    /\ request = NoRequest
    /\ inflight = 1
    /\ body \in DecoderBodies
    /\ rest = body
    /\ fullMessage = <<>>
    /\ out = <<>>
    /\ doneSeen = FALSE
    /\ lastErr = "none"

DecoderNext ==
    \/ ReadChunk
    \/ ReadDone
    \/ ReadError

DecoderSpec == DecoderInit /\ [][DecoderNext]_vars


(* --------------------- the program with a network ---------------------- *)

\* The steps in which a pending network operation resolves or fails: the
\* awaits of fetch (lines 126, 186), response.text() (137, 197),
\* reader.read() (147) and response.json() (201) return or throw.
NetworkStep ==
    \/ StreamFetchFail
    \/ StreamHttpError
    \/ StreamErrorText
    \/ StreamResponse
    \/ ReadChunk
    \/ ReadDone
    \/ ReadError
    \/ MarkdownFetchFail
    \/ MarkdownHttpError
    \/ MarkdownErrorText
    \/ MarkdownResponse
    \/ MarkdownJsonFail
    \/ MarkdownJson

\* The program run against a network whose operations all settle: an await
\* that can return or throw does not stay pending for ever.
FairSpec == Init /\ [][Next]_vars /\ WF_vars(NetworkStep)

(* ------------------------------ claims --------------------------------- *)

DoneLine == DataPrefix \o DoneText

\* a well-formed streaming response: every line is blank, a token record or
\* the sentinel, and only blank lines follow the sentinel
WellFormedBody(b) ==
    LET ls == Split(b) IN
    /\ \A i \in 1..Len(ls) :
          ls[i] \in { <<>>, TokenLine("a"), TokenLine("b"), DoneLine }
    /\ \A i, j \in 1..Len(ls) : (i < j /\ ls[i] = DoneLine) => ls[j] = <<>>

\* C1: when a well-formed body has been delivered, in whatever chunks, the
\* tokens the read loop has emitted are those it emits when the whole body
\* arrives as one chunk.
C1_ChunkBoundaryIndependence ==
    (pc = "read" /\ rest = <<>> /\ WellFormedBody(body))
        => out = DecodeChunk(body).tokens

\* C2: once the line loop has met the sentinel, no later step of the read
\* loop emits a token.
C2_NoTokenAfterDone ==
    [][(doneSeen /\ pc' = "read")
          => (out' = out /\ fullMessage' = fullMessage)]_vars

\* the test of line 151, on the fragments of a line
C3_HasDataPrefix(line) ==
    LET t == Trim(line) IN Len(t) >= 2 /\ t[1] = "data:" /\ t[2] = SP

C3_DataLines(chunk) ==
    LET ls == Split(chunk) IN
    Cardinality({ i \in 1..Len(ls) : C3_HasDataPrefix(ls[i]) })

\* C3: a step of the read loop emits at most one token for each line of its
\* chunk whose trimmed form starts with the data prefix, so the other lines
\* emit none (a chunk without such a line leaves the output and the
\* accumulated text as they were), and the step reports no error.
C3_NonDataLinesAreSilent ==
    [][(pc = "read" /\ pc' = "read")
          => LET chunk == SubSeq(rest, 1, Len(rest) - Len(rest')) IN
             /\ Len(out') - Len(out) <= C3_DataLines(chunk)
             /\ Len(fullMessage') - Len(fullMessage) <= C3_DataLines(chunk)
             /\ C3_DataLines(chunk) = 0
                   => (out' = out /\ fullMessage' = fullMessage)
             /\ lastErr' = "none"]_vars

\* a comment line and a token record have been read: one token came out
C3_Witness ==
    /\ pc = "read"
    /\ body = <<":", "a", NL>> \o TokenLine("a") \o <<NL>>
    /\ rest = <<>>
    /\ out = << <<"a">> >>


\* C4: while the text of a response that is not ok is awaited, in either
\* mode, the last entry of the store is the user message of the turn; the
\* next step of the program leaves the store as it is, does not exit, and
\* returns to waiting for input.
C4_HttpErrorAbandonsTurn ==
    [][(pc \in {"stext", "mtext"})
          => /\ messages # <<>>
             /\ messages[Len(messages)] = User(userPrompt)
             /\ messages' = messages
             /\ exitCode' = <<>>
             /\ pc' \in {pc, "idle"}
             /\ pc' = "idle" => (lastErr' # "none" /\ inflight' = 0)]_vars

\* a turn has failed with an HTTP error after an earlier turn
C4_Witness ==
    /\ pc = "idle"
    /\ lastErr = "http"
    /\ exitCode = <<>>
    /\ Len(messages) = 2
    /\ messages[2] = User(<<"b">>)

C5_IsNs(inp) == StartsWith(inp, <<"/", "n", "s", SP>>)
C5_Text(inp) == Trim(SubSeq(inp, 4, Len(inp)))

\* C5: from the moment the input "/ns <text>" is handled until the next
\* input, Mode is streaming; with a non-empty text the store holds only the
\* user message <text> while one streaming request for exactly that store is
\* under way, only that message after a failure, and that message followed
\* by the assistant reply (the accumulated text of the stream) after a
\* success; with an empty text the store is empty and no request is made.
C5_NsStartsOneStreamingTurn ==
    /\ [](C5_IsNs(input) =>
            /\ ~isMarkdownMode
            /\ IF C5_Text(input) = <<>>
               THEN pc = "idle" /\ messages = <<>> /\ inflight = 0
               ELSE \/ /\ pc \in {"sfetch", "stext", "read"}
                       /\ messages = << User(C5_Text(input)) >>
                       /\ inflight = 1
                       /\ pc = "sfetch" =>
                             request = [stream |-> TRUE, messages |-> messages]
                    \/ /\ pc = "idle"
                       /\ inflight = 0
                       /\ IF lastErr = "none"
                          THEN /\ Len(messages) = 2
                               /\ messages[1] = User(C5_Text(input))
                               /\ messages[2].role = "assistant"
                          ELSE messages = << User(C5_Text(input)) >>)
    /\ [][(C5_IsNs(input) /\ pc = "read" /\ pc' = "idle" /\ lastErr' = "none")
            => messages' = << User(C5_Text(input)), Assistant(fullMessage) >>]_vars

\* "/ns  b " has been answered
C5_Witness ==
    /\ input = <<"/", "n", "s", SP, SP, "b", SP>>
    /\ pc = "idle"
    /\ messages = << User(<<"b">>), Assistant(<<"a", "b">>) >>

\* C6: the input "/nsm" without a text, handled in any state, leaves the
\* store empty and Mode rendered, makes no request, starts no timer, and
\* leaves the program waiting for input.
C6_BlankNsmOnlyResets ==
    [][(pc = "idle" /\ Trim(input') = <<"/", "n", "s", "m">>)
          => /\ messages' = <<>>
             /\ isMarkdownMode'
             /\ pc' = "idle"
             /\ request' = NoRequest
             /\ inflight' = 0
             /\ timers' = 0
             /\ ~spinnerInterval'
             /\ exitCode' = <<>>]_vars

C6_Witness ==
    /\ pc = "idle"
    /\ input = <<SP, "/", "n", "s", "m">>
    /\ messages = <<>>
    /\ isMarkdownMode
    /\ timers = 0

\* C7: the empty input and the input "/quit" (surrounded by any blanks),
\* handled in any state, end the process with code 0, leave the store as it
\* is and make no request.
C7_EmptyAndQuitExit ==
    [][(pc = "idle"
        /\ (input' = <<>> \/ Trim(input') = <<"/", "q", "u", "i", "t">>))
          => /\ pc' = "exited"
             /\ exitCode' = <<0>>
             /\ messages' = messages
             /\ isMarkdownMode' = isMarkdownMode
             /\ request' = NoRequest
             /\ inflight' = 0
             /\ timers' = 0]_vars

C7_Witness ==
    /\ pc = "exited"
    /\ exitCode = <<0>>
    /\ input = <<SP, "/", "q", "u", "i", "t", SP>>
    /\ isMarkdownMode
    /\ Len(messages) = 2

\* C8: a reset that follows a reset with the same target mode changes
\* neither the store, which stays empty, nor Mode.
C8_ResetIsIdempotent ==
    [][(/\ pc = "idle"
        /\ pc' = "idle"
        /\ \E cmd \in { <<"/", "n", "s">>, <<"/", "n", "s", "m">> } :
              Trim(input) = cmd /\ Trim(input') = cmd)
          => /\ messages = <<>>
             /\ messages' = messages
             /\ isMarkdownMode' = isMarkdownMode]_vars

\* the state one reset to Normal mode leaves
C8_Witness ==
    /\ pc = "idle"
    /\ Trim(input) = <<"/", "n", "s">>
    /\ messages = <<>>
    /\ ~isMarkdownMode

\* C9: at most one network promise is pending at any time, exactly one
\* while a chat function is suspended, and none while the program waits for
\* a line of input (the first wait included: the turn of the initial prompt
\* has ended by then), has not started, or has exited; a request awaits its
\* response only while a chat function awaits fetch.
C9_TurnsAreSerialized ==
    /\ inflight <= 1
    /\ pc \in {"start", "idle", "exited"} => (inflight = 0 /\ request = NoRequest)
    /\ pc \in {"sfetch", "stext", "read", "mfetch", "mtext", "mjson"}
          => inflight = 1
    /\ request # NoRequest => pc \in {"sfetch", "mfetch"}

\* the second turn of a session is under way
C9_Witness ==
    /\ pc = "read"
    /\ inflight = 1
    /\ input = <<"b">>
    /\ Len(messages) = 2
    /\ rest # <<>>

\* C10: at most one interval timer is set at any time, the handle is held
\* exactly while one is set, one is set only while a buffered request is
\* under way, and none while the program waits for input.
C10_SpinnerIsStopped ==
    /\ timers <= 1
    /\ spinnerInterval = (timers = 1)
    /\ timers = 1 => pc \in {"mfetch", "mtext", "mjson"}
    /\ pc = "idle" => timers = 0

\* a buffered turn has failed on a body that is not JSON
C10_Witness ==
    /\ pc = "idle"
    /\ lastErr = "json"
    /\ timers = 0
    /\ ~spinnerInterval

C11_TurnStates == {"sfetch", "stext", "read", "mfetch", "mtext", "mjson"}

\* C11: the process exits only at startup without a credential (code 1) or
\* on an empty line or /quit read at the prompt (code 0), and a chat turn
\* under way always leads back to the prompt, whatever its outcome, when
\* the pending network operations settle.
C11_ChatFailuresReturnToPrompt ==
    /\ [][(pc' = "exited" /\ pc # "exited") =>
             \/ pc = "start" /\ exitCode' = <<1>>
             \/ /\ pc = "idle"
                /\ exitCode' = <<0>>
                /\ (input' = <<>> \/ Trim(input') = QuitCmd)]_vars
    /\ (pc \in C11_TurnStates) ~> (pc = "idle")

\* a streaming turn has failed while its body was read, and the program
\* waits for the next line
C11_Witness ==
    /\ pc = "idle"
    /\ lastErr = "read"
    /\ exitCode = <<>>

\* the line is a new-session command of Normal mode: /ns alone or /ns
\* followed by a space
C12_IsNs(inp) ==
    \/ Trim(inp) = <<"/", "n", "s">>
    \/ StartsWith(inp, <<"/", "n", "s", " ">>)

\* the line is a new-session command of Markdown mode
C12_IsNsm(inp) ==
    \/ Trim(inp) = <<"/", "n", "s", "m">>
    \/ StartsWith(inp, <<"/", "n", "s", "m", " ">>)

\* C12: the mode changes only in the step that reads a new-session command,
\* which sets it to streaming for /ns and to rendered for /nsm whatever it
\* was; every other step, the steps of a chat turn that succeeds or fails
\* included, leaves it as it is.
C12_ModeChangesOnlyByCommand ==
    [][/\ (pc = "idle" /\ pc' # "exited" /\ C12_IsNs(input'))
             => isMarkdownMode' = FALSE
       /\ (pc = "idle" /\ pc' # "exited" /\ C12_IsNsm(input'))
             => isMarkdownMode' = TRUE
       /\ ~(pc = "idle" /\ (C12_IsNs(input') \/ C12_IsNsm(input')))
             => isMarkdownMode' = isMarkdownMode]_vars

\* a plain chat turn has failed in rendered mode, and the mode is still
\* rendered
C12_Witness ==
    /\ pc = "idle"
    /\ isMarkdownMode
    /\ input = <<"b">>
    /\ lastErr = "network"

C13_StreamStates == {"sfetch", "stext", "read"}
C13_BufferedStates == {"mfetch", "mtext", "mjson"}

\* C13: a chat turn runs the operation of the mode in force when it starts.
\* A turn started by a plain line or by the initial prompt sends a streaming
\* request when the mode is streaming and a buffered one when it is
\* rendered; a turn started by /ns <text> is always streaming and one
\* started by /nsm <text> always buffered; and while a turn is under way
\* the mode is the one of its operation.
C13_TurnUsesOperationOfMode ==
    /\ [](/\ pc \in C13_StreamStates => ~isMarkdownMode
          /\ pc \in C13_BufferedStates => isMarkdownMode
          /\ pc = "sfetch" => request.stream
          /\ pc = "mfetch" => ~request.stream)
    /\ [][(pc \in {"start", "idle"} /\ pc' \in C11_TurnStates) =>
             IF pc = "idle" /\ C12_IsNs(input')
             THEN pc' = "sfetch" /\ request'.stream
             ELSE IF pc = "idle" /\ C12_IsNsm(input')
             THEN pc' = "mfetch" /\ ~request'.stream
             ELSE /\ pc' = (IF isMarkdownMode THEN "mfetch" ELSE "sfetch")
                  /\ request'.stream = ~isMarkdownMode]_vars

\* a plain line read in rendered mode has sent a buffered request
C13_Witness ==
    /\ pc = "mfetch"
    /\ input = <<"b">>
    /\ isMarkdownMode
    /\ ~request.stream
    /\ request.messages # <<>>

\* C14: while a streamed body is read, each read step writes the tokens of
\* its chunk to the output once, in order and behind those written before,
\* and accumulates the same tokens in the same order, so that the
\* accumulated text is at every moment the concatenation of the tokens
\* written; when the body ends, the assistant message appended to the store
\* is exactly that concatenation.
C14_AssistantIsConcatenationOfTokens ==
    /\ [](pc = "read" => fullMessage = Concat(out))
    /\ [][(pc = "read" /\ pc' = "read") =>
             \E n \in 1..Len(rest) :
                LET emitted == DecodeChunk(SubSeq(rest, 1, n)).tokens IN
                /\ rest' = Slice(rest, n)
                /\ out' = out \o emitted
                /\ fullMessage' = fullMessage \o Concat(emitted)]_vars
    /\ [][(pc = "read" /\ pc' = "idle" /\ lastErr' = "none") =>
             messages' = Append(messages, Assistant(Concat(out)))]_vars

\* a streaming turn has ended well after two different tokens
C14_Witness ==
    /\ pc = "idle"
    /\ lastErr = "none"
    /\ body = <<>>
    /\ Len(messages) = 2
    /\ messages[2] = Assistant(<<"a", "b">>)

\* the token the line stands for: when its trimmed form starts with the
\* data prefix and the remainder parses as a record with content that is
\* not empty, that content; <<>> otherwise
C15_TokenOf(line) ==
    LET t == Trim(line) IN
    IF StartsWith(t, DataPrefix) THEN ParseToken(Slice(t, Len(DataPrefix)))
    ELSE <<>>

RECURSIVE C15_TokensOf(_)
C15_TokensOf(ls) ==
    IF ls = <<>> THEN <<>>
    ELSE IF C15_TokenOf(Head(ls)) # <<>>
         THEN <<C15_TokenOf(Head(ls))>> \o C15_TokensOf(Tail(ls))
         ELSE C15_TokensOf(Tail(ls))

\* the chunk delivered by the step
C15_Chunk == SubSeq(rest, 1, Len(rest) - Len(rest'))

\* C15: a read step whose chunk consists of complete lines, none of them the
\* sentinel, writes exactly one token for every line whose trimmed form
\* starts with the data prefix and whose remainder is a record with content
\* that is not empty, leading white space before the prefix or not, in the
\* order of the lines, and the other lines write nothing.
C15_EveryDataLineEmitsItsToken ==
    [][(/\ pc = "read"
        /\ pc' = "read"
        /\ rest = body
        /\ Len(rest') < Len(rest)
        /\ rest[Len(rest) - Len(rest')] = NL
        /\ \A i \in 1..Len(Split(C15_Chunk)) :
              Trim(Split(C15_Chunk)[i]) # DoneLine)
          => out' = out \o C15_TokensOf(Split(C15_Chunk))]_vars

\* C16: the step that ends a buffered turn after a 2xx response stops the
\* spinner and goes back to the prompt without ending the process, and it
\* appends an assistant message only when the body was JSON that carried
\* choices[0].message.content, in which case the message is that content;
\* on every other body an error is reported, nothing is appended and the
\* user message of the turn stays last in the store.
C16_MalformedBufferedBodyFailsTurn ==
    [][(pc = "mjson" /\ pc' # "mjson") =>
          /\ pc' = "idle"
          /\ exitCode' = <<>>
          /\ timers' = 0
          /\ ~spinnerInterval'
          /\ \/ /\ lastErr' \in {"json", "shape", "render"}
                /\ messages' = messages
                /\ messages'[Len(messages')] = User(userPrompt)
             \/ /\ lastErr' = "none"
                /\ \E d \in JsonBodies :
                      /\ d.kind = "content"
                      /\ messages' = Append(messages, Assistant(d.content))]_vars

\* a buffered turn has failed on a JSON body without choices[0]
C16_Witness ==
    /\ pc = "idle"
    /\ lastErr = "shape"
    /\ isMarkdownMode
    /\ timers = 0
    /\ messages # <<>>
    /\ messages[Len(messages)].role = "user"

\* C17: while a request awaits its response, the message list it carries
\* is the whole store, in order, and its last entry is the user message
\* of the turn under way; a request is pending in each of the two states
\* that await fetch.
C17_RequestCarriesWholeStore ==
    /\ pc \in {"sfetch", "mfetch"} =>
          /\ request.messages # <<>>
          /\ request.messages = messages
          /\ request.messages[Len(request.messages)] = User(userPrompt)
    /\ pc \notin {"sfetch", "mfetch"} => request.messages = <<>>

\* the request of a turn that follows a failed turn carries the user
\* messages of both
C17_Witness ==
    /\ pc = "sfetch"
    /\ request.stream
    /\ request.messages = << User(<<"a">>), User(<<"b">>) >>

\* s is an initial part of t
C18_IsPrefix(s, t) ==
    /\ Len(s) <= Len(t)
    /\ SubSeq(t, 1, Len(s)) = s

\* C18: in every step that does not read a new-session command the store
\* before the step is an initial part of the store after it; a step that
\* reads /ns or /nsm empties the store, and leaves it empty or, when the
\* command carries a message, holding the user message of the turn it
\* starts and nothing else.
C18_StoreIsAppendOnly ==
    [][IF pc = "idle" /\ pc' # "exited"
          /\ (C12_IsNs(input') \/ C12_IsNsm(input'))
       THEN \/ messages' = <<>>
            \/ Len(messages') = 1 /\ messages' = << User(userPrompt') >>
       ELSE C18_IsPrefix(messages, messages')]_vars

\* the store has grown over two turns, the first of which failed
C18_Witness ==
    /\ pc = "idle"
    /\ Len(messages) = 3
    /\ messages[1].role = "user"
    /\ messages[2].role = "user"
    /\ messages[3].role = "assistant"

\* C19: the store is empty or begins with a user message, and every
\* assistant message in it comes directly after a user message.
C19_AssistantFollowsUser ==
    /\ messages # <<>> => messages[1].role = "user"
    /\ \A i \in 1..Len(messages) :
          /\ messages[i].role \in {"user", "assistant"}
          /\ messages[i].role = "assistant" =>
                (i > 1 /\ messages[i - 1].role = "user")

\* after a failed turn and a successful one the store holds two user
\* messages in a row and then the answer to the second
C19_Witness ==
    /\ messages = << User(<<"a">>), User(<<"b">>), Assistant(<<"b">>) >>
    /\ lastErr = "none"

\* C20: the startup step of a program whose initial prompt is p starts,
\* when p is not empty, one chat turn for p in the mode the program was
\* started in, on a store that holds nothing but the user message p, and
\* reads no line; when p is empty it goes to the prompt with an empty store
\* and no request.  A turn under way before any line is read is that of
\* the initial prompt, no line is read while it runs, and it ends at the
\* prompt and not in an exit, whether it succeeds or fails.
C20_InitialPromptRunsFirst ==
    /\ [][\A p \in InitialPrompts : MainWith(p) =>
             IF p # <<>>
             THEN /\ pc' = (IF isMarkdownMode THEN "mfetch" ELSE "sfetch")
                  /\ isMarkdownMode' = isMarkdownMode
                  /\ messages' = << User(p) >>
                  /\ request' = [stream |-> ~isMarkdownMode,
                                 messages |-> << User(p) >>]
                  /\ inflight' = 1
                  /\ input' = <<>>
             ELSE /\ pc' = "idle"
                  /\ messages' = <<>>
                  /\ request' = NoRequest
                  /\ inflight' = 0
                  /\ input' = <<>>]_vars
    /\ []((input = <<>> /\ pc \in C11_TurnStates) =>
             /\ userPrompt \in InitialPrompts \ { <<>> }
             /\ messages = << User(userPrompt) >>)
    /\ [][(input = <<>> /\ pc \in C11_TurnStates) =>
             /\ pc' \in C11_TurnStates \cup {"idle"}
             /\ input' = <<>>]_vars

\* the turn of the initial prompt has failed and the program waits for its
\* first line
C20_Witness ==
    /\ pc = "idle"
    /\ input = <<>>
    /\ messages = << User(<<"a">>) >>
    /\ lastErr # "none"

=============================================================================
